---------------------------- MODULE Spec2Model ----------------------------
(***************************************************************************)
(* The execution engine of mdpu.rs (src/src/mdpu.rs): the ProcessingUnit   *)
(* (registers, memory, stack pointer), its bounds-checked operations, and  *)
(* the fetch-execute loop of execute_program, followed by the snapshot     *)
(* that run() takes.                                                       *)
(*                                                                         *)
(* Vec<i32> is modelled as a function over 0..len-1, the program as a      *)
(* sequence (program[i] of the source is program[i + 1] here).  i32        *)
(* arithmetic keeps its 32-bit width: every operation is computed without  *)
(* leaving the i32 range, together with the test whether the mathematical  *)
(* result leaves it.  What the source does on such an overflow depends on  *)
(* the build (overflow-checks on: panic; off: two's-complement wrap), so   *)
(* the build's setting is part of the state, chosen at Init.               *)
(***************************************************************************)
EXTENDS Integers, Sequences, FiniteSets, TLC

VARIABLES
    pu,                 \* the ProcessingUnit: [registers, memory, stack_pointer]
    program,            \* the decoded instructions given to run()
    mic,                \* max_instruction_count
    instruction_count,  \* execute_program's local counter
    instruction_pointer,\* execute_program's local pointer
    pc,                 \* position in run()/execute_program
    fault,              \* how the process ended abnormally, "None" if it did not
    state,              \* the ProcessingUnitState run() returns, "NoState" before
    overflow_checks     \* the build's overflow-checks setting

vars == <<pu, program, mic, instruction_count, instruction_pointer, pc, fault,
          state, overflow_checks>>

---------------------------------------------------------------------------
(* Bounds of the model. *)

MaxRegs == 2
MaxMem == 3
MaxBudget == 5

---------------------------------------------------------------------------
(* i32 *)

I32Max == 2147483647
I32Min == -I32Max - 1

Abs32(a) == IF a < 0 THEN -a ELSE a

\* a + b leaves the i32 range
AddOverflows(a, b) ==
    \/ b > 0 /\ a > I32Max - b
    \/ b < 0 /\ a < I32Min - b

\* a + b modulo 2^32, as i32
WrappingAdd(a, b) ==
    IF b > 0 /\ a > I32Max - b THEN (a + I32Min) + (b + I32Min)
    ELSE IF b < 0 /\ a < I32Min - b THEN ((a + I32Max) + 1) + ((b + I32Max) + 1)
    ELSE a + b

\* -b modulo 2^32, as i32
WrappingNeg(b) == IF b = I32Min THEN I32Min ELSE -b

SubOverflows(a, b) ==
    IF b = I32Min THEN a >= 0 ELSE AddOverflows(a, -b)

WrappingSub(a, b) ==
    IF b = I32Min THEN (IF a >= 0 THEN a + I32Min ELSE (a + I32Max) + 1)
    ELSE WrappingAdd(a, -b)

\* a * b leaves the i32 range
MulOverflows(a, b) ==
    IF a = 0 \/ b = 0 THEN FALSE
    ELSE IF a = I32Min THEN b # 1
    ELSE IF b = I32Min THEN a # 1
    ELSE LET x == Abs32(a)
             y == Abs32(b)
             q == I32Max \div y
         IN  IF (a > 0) = (b > 0) THEN x > q
             ELSE x - (IF I32Max % y = y - 1 THEN 1 ELSE 0) > q

\* a * b modulo 2^32, as i32, by 16-bit halves
WrappingMul(a, b) ==
    LET al == a % 65536
        ah == a \div 65536
        bl == b % 65536
        bh == b \div 65536
        cross == (((ah * bl) % 65536) + ((al * bh) % 65536)) % 65536
        p0 == (al % 256) * bl
        p1 == (al \div 256) * bl
        lo == (((p1 % 256) * 256) + p0) % 65536
        carry == (p1 + (p0 \div 256)) \div 256
        hi == (cross + carry) % 65536
    IN  (IF hi >= 32768 THEN hi - 65536 ELSE hi) * 65536 + lo

\* Rust's i32 `/`: truncated toward zero (b # 0, not I32Min / -1)
TruncDiv(a, b) ==
    IF b = I32Min THEN (IF a = I32Min THEN 1 ELSE 0)
    ELSE IF a = I32Min
         THEN LET y == Abs32(b)
                  q == I32Max \div y
                  c == IF I32Max % y = y - 1 THEN 1 ELSE 0
              IN  IF b > 0 THEN (-q) - c ELSE q + c
    ELSE LET q == Abs32(a) \div Abs32(b)
         IN  IF (a < 0) = (b < 0) THEN q ELSE -q

\* Rust's i32 `%`: remainder with the sign of the dividend
TruncRem(a, b) ==
    IF b = I32Min THEN (IF a = I32Min THEN 0 ELSE a)
    ELSE IF a = I32Min
         THEN LET y == Abs32(b)
                  r == ((I32Max % y) + 1) % y
              IN  -r
    ELSE LET r == Abs32(a) % Abs32(b)
         IN  IF a < 0 THEN -r ELSE r

DivOverflows(a, b) == a = I32Min /\ b = -1

RECURSIVE BitAnd(_, _)
BitAnd(a, b) ==
    IF a = 0 \/ b = 0 THEN 0
    ELSE IF a = -1 THEN b
    ELSE IF b = -1 THEN a
    ELSE (a % 2) * (b % 2) + 2 * BitAnd(a \div 2, b \div 2)

BitNot(a) == -1 - a

BitOr(a, b) == BitNot(BitAnd(BitNot(a), BitNot(b)))

BitXor(a, b) == BitOr(a, b) - BitAnd(a, b)

\* the shift amount is no valid one for a 32-bit value
ShiftOverflows(n) == n < 0 \/ n >= 32

RECURSIVE ShlBy(_, _)
ShlBy(a, n) == IF n = 0 THEN a ELSE ShlBy(WrappingAdd(a, a), n - 1)

RECURSIVE ShrBy(_, _)
ShrBy(a, n) == IF n = 0 THEN a ELSE ShrBy(a \div 2, n - 1)

\* i32::wrapping_shl / wrapping_shr: the amount is taken modulo 32
WrappingShl(a, n) == ShlBy(a, n % 32)

WrappingShr(a, n) == ShrBy(a, n % 32)

---------------------------------------------------------------------------
(* usize *)

\* usize at the width of a 32-bit target, each value held as the i32 with the
\* same bits: a word w >= 0 is the index w, a word w < 0 is the index
\* w + 2^32, and usize::MAX is the word of all ones.
UsizeMax == -1

\* a < b of two usize
usize_lt(a, b) == IF (a >= 0) = (b >= 0) THEN a < b ELSE b < 0

\* a + 1 of a usize, wrapped
usize_wrapping_inc(a) == IF a = I32Max THEN I32Min ELSE a + 1

---------------------------------------------------------------------------
(* ProcessingUnit *)

\* Vec::len
len(v) == Cardinality(DOMAIN v)

\* A method that returned, and one that ended the process (std::process::exit
\* after the message for `kind`, or a panic), with the unit as it was then.
Ok(p) == [pu |-> p, exit |-> "None"]

Exit(p, kind) == [pu |-> p, exit |-> kind]

\* A write of `value` to register `reg` whose computation overflows when
\* `overflows`: a panic where the build checks overflow, the wrapped value
\* where it does not.
Checked(p, overflows, reg, value) ==
    IF overflows /\ overflow_checks THEN Exit(p, "Panic")
    ELSE Ok([p EXCEPT !.registers[reg] = value])

initialize(num_registers, memory_size) ==
    [registers |-> [i \in 0..(num_registers - 1) |-> 0],
     memory |-> [i \in 0..(memory_size - 1) |-> 0],
     stack_pointer |-> memory_size - 1]

\* TRUE when check_register_bounds returns, FALSE when it exits the process
check_register_bounds(p, reg) == ~(~usize_lt(reg, len(p.registers)))

add(p, reg1, reg2, reg3) ==
    IF ~check_register_bounds(p, reg1) THEN Exit(p, "OutOfBounds")
    ELSE IF ~check_register_bounds(p, reg2) THEN Exit(p, "OutOfBounds")
    ELSE IF ~check_register_bounds(p, reg3) THEN Exit(p, "OutOfBounds")
    ELSE Checked(p, AddOverflows(p.registers[reg1], p.registers[reg2]), reg3,
                 WrappingAdd(p.registers[reg1], p.registers[reg2]))

\* subtract with its operands exchanged: reg2 - reg1
subtract_exchanged(p, reg1, reg2, reg3) ==
    IF ~check_register_bounds(p, reg1) THEN Exit(p, "OutOfBounds")
    ELSE IF ~check_register_bounds(p, reg2) THEN Exit(p, "OutOfBounds")
    ELSE IF ~check_register_bounds(p, reg3) THEN Exit(p, "OutOfBounds")
    ELSE Checked(p, SubOverflows(p.registers[reg2], p.registers[reg1]), reg3,
                 WrappingSub(p.registers[reg2], p.registers[reg1]))

subtract(p, reg1, reg2, reg3) ==
    IF ~check_register_bounds(p, reg1) THEN Exit(p, "OutOfBounds")
    ELSE IF ~check_register_bounds(p, reg2) THEN Exit(p, "OutOfBounds")
    ELSE IF ~check_register_bounds(p, reg3) THEN Exit(p, "OutOfBounds")
    ELSE Checked(p, SubOverflows(p.registers[reg1], p.registers[reg2]), reg3,
                 WrappingSub(p.registers[reg1], p.registers[reg2]))

multiply(p, reg1, reg2, reg3) ==
    IF ~check_register_bounds(p, reg1) THEN Exit(p, "OutOfBounds")
    ELSE IF ~check_register_bounds(p, reg2) THEN Exit(p, "OutOfBounds")
    ELSE IF ~check_register_bounds(p, reg3) THEN Exit(p, "OutOfBounds")
    ELSE Checked(p, MulOverflows(p.registers[reg1], p.registers[reg2]), reg3,
                 WrappingMul(p.registers[reg1], p.registers[reg2]))

\* i32::MIN / -1 and i32::MIN % -1 panic in every build
\* divide with a zero divisor yielding 0 where the source exits
divide_zero_quotient(p, reg1, reg2, reg3) ==
    IF ~check_register_bounds(p, reg1) THEN Exit(p, "OutOfBounds")
    ELSE IF ~check_register_bounds(p, reg2) THEN Exit(p, "OutOfBounds")
    ELSE IF ~check_register_bounds(p, reg3) THEN Exit(p, "OutOfBounds")
    ELSE IF p.registers[reg2] # 0
         THEN IF DivOverflows(p.registers[reg1], p.registers[reg2])
              THEN Exit(p, "Panic")
              ELSE Ok([p EXCEPT !.registers[reg3] =
                          TruncDiv(p.registers[reg1], p.registers[reg2])])
         ELSE Ok([p EXCEPT !.registers[reg3] = 0])

divide(p, reg1, reg2, reg3) ==
    IF ~check_register_bounds(p, reg1) THEN Exit(p, "OutOfBounds")
    ELSE IF ~check_register_bounds(p, reg2) THEN Exit(p, "OutOfBounds")
    ELSE IF ~check_register_bounds(p, reg3) THEN Exit(p, "OutOfBounds")
    ELSE IF p.registers[reg2] # 0
         THEN IF DivOverflows(p.registers[reg1], p.registers[reg2])
              THEN Exit(p, "Panic")
              ELSE Ok([p EXCEPT !.registers[reg3] =
                          TruncDiv(p.registers[reg1], p.registers[reg2])])
         ELSE Exit(p, "DivisionByZero")

neg(p, reg1, reg2) ==
    IF ~check_register_bounds(p, reg1) THEN Exit(p, "OutOfBounds")
    ELSE IF ~check_register_bounds(p, reg2) THEN Exit(p, "OutOfBounds")
    ELSE Checked(p, p.registers[reg1] = I32Min, reg2,
                 WrappingNeg(p.registers[reg1]))

absolute(p, reg1, reg2) ==
    IF ~check_register_bounds(p, reg1) THEN Exit(p, "OutOfBounds")
    ELSE IF ~check_register_bounds(p, reg2) THEN Exit(p, "OutOfBounds")
    ELSE Checked(p, p.registers[reg1] = I32Min, reg2,
                 IF p.registers[reg1] < 0 THEN WrappingNeg(p.registers[reg1])
                                          ELSE p.registers[reg1])

mod_op(p, reg1, reg2, reg3) ==
    IF ~check_register_bounds(p, reg1) THEN Exit(p, "OutOfBounds")
    ELSE IF ~check_register_bounds(p, reg2) THEN Exit(p, "OutOfBounds")
    ELSE IF ~check_register_bounds(p, reg3) THEN Exit(p, "OutOfBounds")
    ELSE IF p.registers[reg2] # 0
         THEN IF DivOverflows(p.registers[reg1], p.registers[reg2])
              THEN Exit(p, "Panic")
              ELSE Ok([p EXCEPT !.registers[reg3] =
                          TruncRem(p.registers[reg1], p.registers[reg2])])
         ELSE Exit(p, "DivisionByZero")

\* store growing the memory to reach an address past its end
store_resizes(p, reg, addr) ==
    IF ~check_register_bounds(p, reg) THEN Exit(p, "OutOfBounds")
    ELSE IF usize_lt(addr, len(p.memory))
         THEN Ok([p EXCEPT !.memory[addr] = p.registers[reg]])
         ELSE Ok([p EXCEPT !.memory =
                     [i \in 0..addr |-> IF i < len(p.memory) THEN p.memory[i]
                                        ELSE IF i = addr THEN p.registers[reg]
                                        ELSE 0]])

store(p, reg, addr) ==
    IF ~check_register_bounds(p, reg) THEN Exit(p, "OutOfBounds")
    ELSE IF usize_lt(addr, len(p.memory))
         THEN Ok([p EXCEPT !.memory[addr] = p.registers[reg]])
         ELSE Exit(p, "OutOfBounds")

load(p, addr, reg) ==
    IF ~check_register_bounds(p, reg) THEN Exit(p, "OutOfBounds")
    ELSE IF usize_lt(addr, len(p.memory))
         THEN Ok([p EXCEPT !.registers[reg] = p.memory[addr]])
         ELSE Exit(p, "OutOfBounds")

\* push keeping one more cell free: `stack_pointer > 1`
push_stops_early(p, reg) ==
    IF ~check_register_bounds(p, reg) THEN Exit(p, "OutOfBounds")
    ELSE IF p.stack_pointer > 1
         THEN Ok([p EXCEPT !.memory[p.stack_pointer] = p.registers[reg],
                           !.stack_pointer = p.stack_pointer - 1])
         ELSE Exit(p, "StackOverflow")

\* push writing the cell before it tests the stack pointer
push_writes_first(p, reg) ==
    IF ~check_register_bounds(p, reg) THEN Exit(p, "OutOfBounds")
    ELSE IF p.stack_pointer > 0
         THEN Ok([p EXCEPT !.memory[p.stack_pointer] = p.registers[reg],
                           !.stack_pointer = p.stack_pointer - 1])
         ELSE Exit([p EXCEPT !.memory[p.stack_pointer] = p.registers[reg]],
                   "StackOverflow")

\* push moving the stack pointer before it writes: the value goes one cell
\* below the one pop reads
push_decrements_first(p, reg) ==
    IF ~check_register_bounds(p, reg) THEN Exit(p, "OutOfBounds")
    ELSE IF p.stack_pointer > 0
         THEN Ok([p EXCEPT !.memory[p.stack_pointer - 1] = p.registers[reg],
                           !.stack_pointer = p.stack_pointer - 1])
         ELSE Exit(p, "StackOverflow")

\* push with the test `stack_pointer >= 0`: the last push goes to memory[0]
push_to_cell_zero(p, reg) ==
    IF ~check_register_bounds(p, reg) THEN Exit(p, "OutOfBounds")
    ELSE IF p.stack_pointer >= 0
         THEN Ok([p EXCEPT !.memory[p.stack_pointer] = p.registers[reg],
                           !.stack_pointer = p.stack_pointer - 1])
         ELSE Exit(p, "StackOverflow")

push(p, reg) ==
    IF ~check_register_bounds(p, reg) THEN Exit(p, "OutOfBounds")
    ELSE IF p.stack_pointer > 0
         THEN Ok([p EXCEPT !.memory[p.stack_pointer] = p.registers[reg],
                           !.stack_pointer = p.stack_pointer - 1])
         ELSE Exit(p, "StackOverflow")

\* pop with the test off by one, `stack_pointer < memory.len()`: from the
\* empty stack the pointer is moved and the read past the end panics
pop_off_by_one(p, reg) ==
    IF ~check_register_bounds(p, reg) THEN Exit(p, "OutOfBounds")
    ELSE IF p.stack_pointer < len(p.memory)
         THEN IF p.stack_pointer + 1 < len(p.memory)
              THEN Ok([p EXCEPT !.stack_pointer = p.stack_pointer + 1,
                                !.registers[reg] = p.memory[p.stack_pointer + 1]])
              ELSE Exit([p EXCEPT !.stack_pointer = p.stack_pointer + 1], "Panic")
         ELSE Exit(p, "StackUnderflow")

\* pop reading the cell before it moves the stack pointer
pop_reads_first(p, reg) ==
    IF ~check_register_bounds(p, reg) THEN Exit(p, "OutOfBounds")
    ELSE IF p.stack_pointer < len(p.memory) - 1
         THEN Ok([p EXCEPT !.stack_pointer = p.stack_pointer + 1,
                           !.registers[reg] = p.memory[p.stack_pointer]])
         ELSE Exit(p, "StackUnderflow")

\* pop reading the top cell and leaving the stack pointer where it was
pop_keeps_pointer(p, reg) ==
    IF ~check_register_bounds(p, reg) THEN Exit(p, "OutOfBounds")
    ELSE IF p.stack_pointer < len(p.memory) - 1
         THEN Ok([p EXCEPT !.registers[reg] = p.memory[p.stack_pointer + 1]])
         ELSE Exit(p, "StackUnderflow")

pop(p, reg) ==
    IF ~check_register_bounds(p, reg) THEN Exit(p, "OutOfBounds")
    ELSE IF p.stack_pointer < len(p.memory) - 1
         THEN Ok([p EXCEPT !.stack_pointer = p.stack_pointer + 1,
                           !.registers[reg] = p.memory[p.stack_pointer + 1]])
         ELSE Exit(p, "StackUnderflow")

mov(p, reg1, reg2) ==
    IF ~check_register_bounds(p, reg1) THEN Exit(p, "OutOfBounds")
    ELSE IF ~check_register_bounds(p, reg2) THEN Exit(p, "OutOfBounds")
    ELSE Ok([p EXCEPT !.registers[reg1] = p.registers[reg2]])

---------------------------------------------------------------------------
(* execute_program: the arms of `match instr.opcode` *)

\* What an arm leaves behind: the unit, how the process ended inside the arm
\* ("None": it did not), instruction_pointer as the arm left it, and where
\* control goes: to the two increments after the match ("advance"), back to
\* the loop head ("continue") or out of the loop ("break").
Advance(r, ip) == [pu |-> r.pu, exit |-> r.exit, ip |-> ip, flow |-> "advance"]

Continue(p, ip) == [pu |-> p, exit |-> "None", ip |-> ip, flow |-> "continue"]

\* a Halt arm that falls through to the increments like Nop
Break_falls_through(p, ip) == [pu |-> p, exit |-> "None", ip |-> ip, flow |-> "advance"]

Break(p, ip) == [pu |-> p, exit |-> "None", ip |-> ip, flow |-> "break"]

LoadImmediate(p, instr, ip) ==
    IF ~check_register_bounds(p, instr.reg1) THEN Advance(Exit(p, "OutOfBounds"), ip)
    ELSE Advance(Ok([p EXCEPT !.registers[instr.reg1] = instr.immediate]), ip)

Jmp(p, instr, ip) == Continue(p, instr.addr)

\* Jz without its `continue`, as Je and Jne are written
Jz_without_continue(p, instr, ip) ==
    IF ~check_register_bounds(p, instr.reg1) THEN Advance(Exit(p, "OutOfBounds"), ip)
    ELSE IF p.registers[instr.reg1] = 0 THEN Advance(Ok(p), instr.addr)
    ELSE Advance(Ok(p), ip)

Jz(p, instr, ip) ==
    IF ~check_register_bounds(p, instr.reg1) THEN Advance(Exit(p, "OutOfBounds"), ip)
    ELSE IF p.registers[instr.reg1] = 0 THEN Continue(p, instr.addr)
    ELSE Advance(Ok(p), ip)

Jnz(p, instr, ip) ==
    IF ~check_register_bounds(p, instr.reg1) THEN Advance(Exit(p, "OutOfBounds"), ip)
    ELSE IF p.registers[instr.reg1] # 0 THEN Continue(p, instr.addr)
    ELSE Advance(Ok(p), ip)

\* Je and Jne assign the pointer and fall out of the match: no `continue`
Je(p, instr, ip) ==
    IF ~check_register_bounds(p, instr.reg1) THEN Advance(Exit(p, "OutOfBounds"), ip)
    ELSE IF ~check_register_bounds(p, instr.reg2) THEN Advance(Exit(p, "OutOfBounds"), ip)
    ELSE IF p.registers[instr.reg1] = p.registers[instr.reg2]
         THEN Advance(Ok(p), instr.addr)
         ELSE Advance(Ok(p), ip)

Jne(p, instr, ip) ==
    IF ~check_register_bounds(p, instr.reg1) THEN Advance(Exit(p, "OutOfBounds"), ip)
    ELSE IF ~check_register_bounds(p, instr.reg2) THEN Advance(Exit(p, "OutOfBounds"), ip)
    ELSE IF p.registers[instr.reg1] # p.registers[instr.reg2]
         THEN Advance(Ok(p), instr.addr)
         ELSE Advance(Ok(p), ip)

\* The arms that check reg1, reg2, reg3 and then write reg3
Regs3(p, instr, ip, overflows, value) ==
    IF ~check_register_bounds(p, instr.reg1) THEN Advance(Exit(p, "OutOfBounds"), ip)
    ELSE IF ~check_register_bounds(p, instr.reg2) THEN Advance(Exit(p, "OutOfBounds"), ip)
    ELSE IF ~check_register_bounds(p, instr.reg3) THEN Advance(Exit(p, "OutOfBounds"), ip)
    ELSE Advance(Checked(p, overflows, instr.reg3, value), ip)

And(p, instr, ip) ==
    Regs3(p, instr, ip, FALSE,
          BitAnd(p.registers[instr.reg1], p.registers[instr.reg2]))

Or(p, instr, ip) ==
    Regs3(p, instr, ip, FALSE,
          BitOr(p.registers[instr.reg1], p.registers[instr.reg2]))

Xor(p, instr, ip) ==
    Regs3(p, instr, ip, FALSE,
          BitXor(p.registers[instr.reg1], p.registers[instr.reg2]))

Not(p, instr, ip) ==
    IF ~check_register_bounds(p, instr.reg1) THEN Advance(Exit(p, "OutOfBounds"), ip)
    ELSE IF ~check_register_bounds(p, instr.reg2) THEN Advance(Exit(p, "OutOfBounds"), ip)
    ELSE Advance(Ok([p EXCEPT !.registers[instr.reg2] =
                        BitNot(p.registers[instr.reg1])]), ip)

Shl(p, instr, ip) ==
    Regs3(p, instr, ip, ShiftOverflows(p.registers[instr.reg2]),
          WrappingShl(p.registers[instr.reg1], p.registers[instr.reg2]))

Shr(p, instr, ip) ==
    Regs3(p, instr, ip, ShiftOverflows(p.registers[instr.reg2]),
          WrappingShr(p.registers[instr.reg1], p.registers[instr.reg2]))

Cmp(p, instr, ip) ==
    Regs3(p, instr, ip,
          SubOverflows(p.registers[instr.reg1], p.registers[instr.reg2]),
          WrappingSub(p.registers[instr.reg1], p.registers[instr.reg2]))

Test(p, instr, ip) ==
    Regs3(p, instr, ip, FALSE,
          BitAnd(p.registers[instr.reg1], p.registers[instr.reg2]))

B(p, instr, ip) == Continue(p, instr.addr)

Bz(p, instr, ip) ==
    IF ~check_register_bounds(p, instr.reg1) THEN Advance(Exit(p, "OutOfBounds"), ip)
    ELSE IF p.registers[instr.reg1] = 0 THEN Continue(p, instr.addr)
    ELSE Advance(Ok(p), ip)

Bnz(p, instr, ip) ==
    IF ~check_register_bounds(p, instr.reg1) THEN Advance(Exit(p, "OutOfBounds"), ip)
    ELSE IF p.registers[instr.reg1] # 0 THEN Continue(p, instr.addr)
    ELSE Advance(Ok(p), ip)

Inc(p, instr, ip) ==
    IF ~check_register_bounds(p, instr.reg1) THEN Advance(Exit(p, "OutOfBounds"), ip)
    ELSE Advance(Checked(p, AddOverflows(p.registers[instr.reg1], 1), instr.reg1,
                         WrappingAdd(p.registers[instr.reg1], 1)), ip)

Dec(p, instr, ip) ==
    IF ~check_register_bounds(p, instr.reg1) THEN Advance(Exit(p, "OutOfBounds"), ip)
    ELSE Advance(Checked(p, SubOverflows(p.registers[instr.reg1], 1), instr.reg1,
                         WrappingSub(p.registers[instr.reg1], 1)), ip)

\* match instr.opcode { ... }
match(p, instr, ip) ==
    CASE instr.opcode = "Add" -> Advance(add(p, instr.reg1, instr.reg2, instr.reg3), ip)
      [] instr.opcode = "Sub" -> Advance(subtract(p, instr.reg1, instr.reg2, instr.reg3), ip)
      [] instr.opcode = "Mul" -> Advance(multiply(p, instr.reg1, instr.reg2, instr.reg3), ip)
      [] instr.opcode = "Div" -> Advance(divide(p, instr.reg1, instr.reg2, instr.reg3), ip)
      [] instr.opcode = "Store" -> Advance(store(p, instr.reg1, instr.addr), ip)
      [] instr.opcode = "Load" -> Advance(load(p, instr.addr, instr.reg1), ip)
      [] instr.opcode = "LoadImmediate" -> LoadImmediate(p, instr, ip)
      [] instr.opcode = "Push" -> Advance(push(p, instr.reg1), ip)
      [] instr.opcode = "Pop" -> Advance(pop(p, instr.reg1), ip)
      [] instr.opcode = "Jmp" -> Jmp(p, instr, ip)
      [] instr.opcode = "Jz" -> Jz(p, instr, ip)
      [] instr.opcode = "Jnz" -> Jnz(p, instr, ip)
      [] instr.opcode = "Mov" -> Advance(mov(p, instr.reg1, instr.reg2), ip)
      [] instr.opcode = "Je" -> Je(p, instr, ip)
      [] instr.opcode = "Jne" -> Jne(p, instr, ip)
      [] instr.opcode = "And" -> And(p, instr, ip)
      [] instr.opcode = "Or" -> Or(p, instr, ip)
      [] instr.opcode = "Xor" -> Xor(p, instr, ip)
      [] instr.opcode = "Not" -> Not(p, instr, ip)
      [] instr.opcode = "Shl" -> Shl(p, instr, ip)
      [] instr.opcode = "Shr" -> Shr(p, instr, ip)
      [] instr.opcode = "Cmp" -> Cmp(p, instr, ip)
      [] instr.opcode = "Test" -> Test(p, instr, ip)
      [] instr.opcode = "B" -> B(p, instr, ip)
      [] instr.opcode = "Bz" -> Bz(p, instr, ip)
      [] instr.opcode = "Bnz" -> Bnz(p, instr, ip)
      [] instr.opcode = "Neg" -> Advance(neg(p, instr.reg1, instr.reg2), ip)
      [] instr.opcode = "Abs" -> Advance(absolute(p, instr.reg1, instr.reg2), ip)
      [] instr.opcode = "Mod" -> Advance(mod_op(p, instr.reg1, instr.reg2, instr.reg3), ip)
      [] instr.opcode = "Inc" -> Inc(p, instr, ip)
      [] instr.opcode = "Dec" -> Dec(p, instr, ip)
      [] instr.opcode = "Nop" -> Advance(Ok(p), ip)
      [] instr.opcode = "Halt" -> Break(p, ip)

---------------------------------------------------------------------------
(* run and execute_program *)

\* the slice taken from the stack pointer itself: pu.memory[pu.stack_pointer..]
stack_slice_from_pointer(p) ==
    [i \in 1..(len(p.memory) - p.stack_pointer) |-> p.memory[p.stack_pointer + i - 1]]

\* pu.memory[pu.stack_pointer + 1..].to_vec()
stack_slice(p) ==
    [i \in 1..(len(p.memory) - 1 - p.stack_pointer) |-> p.memory[p.stack_pointer + i]]

\* the loop with the budget test ahead of the end-of-program test
LoopExit_after_budget ==
    /\ pc = "while"
    /\ ~usize_lt(instruction_pointer, Len(program))
    /\ IF instruction_count >= mic
       THEN fault' = "BudgetExceeded" /\ pc' = "exit"
       ELSE fault' = fault /\ pc' = "run"
    /\ UNCHANGED <<pu, program, mic, instruction_count, instruction_pointer,
                   state, overflow_checks>>

\* `while instruction_pointer < program.len()` is false: execute_program returns
LoopExit ==
    /\ pc = "while"
    /\ ~usize_lt(instruction_pointer, Len(program))
    /\ pc' = "run"
    /\ UNCHANGED <<pu, program, mic, instruction_count, instruction_pointer,
                   fault, state, overflow_checks>>

\* the budget test printing its message without exiting
BudgetExceeded_goes_on ==
    /\ pc = "while"
    /\ usize_lt(instruction_pointer, Len(program))
    /\ instruction_count >= mic
    /\ fault' = "BudgetExceeded"
    /\ pc' = "match"
    /\ UNCHANGED <<pu, program, mic, instruction_count, instruction_pointer,
                   state, overflow_checks>>

\* inside the loop, `instruction_count >= max_instruction_count`: exit(1)
BudgetExceeded ==
    /\ pc = "while"
    /\ usize_lt(instruction_pointer, Len(program))
    /\ instruction_count >= mic
    /\ fault' = "BudgetExceeded"
    /\ pc' = "exit"
    /\ UNCHANGED <<pu, program, mic, instruction_count, instruction_pointer,
                   state, overflow_checks>>

\* inside the loop with budget left: on to the fetch and the match
EnterBody ==
    /\ pc = "while"
    /\ usize_lt(instruction_pointer, Len(program))
    /\ ~(instruction_count >= mic)
    /\ pc' = "match"
    /\ UNCHANGED <<pu, program, mic, instruction_count, instruction_pointer,
                   fault, state, overflow_checks>>

\* `let instr = &program[instruction_pointer]`, the match, and what follows it:
\* `instruction_count += 1`, then `instruction_pointer += 1`, which overflows
\* when an arm left usize::MAX in the pointer
Dispatch ==
    /\ pc = "match"
    /\ LET instr == program[instruction_pointer + 1]
           r == match(pu, instr, instruction_pointer)
           advances == r.exit = "None" /\ r.flow = "advance"
           overflows == advances /\ r.ip = UsizeMax
       IN  /\ pu' = r.pu
           /\ fault' = IF overflows /\ overflow_checks THEN "Panic" ELSE r.exit
           /\ pc' = IF r.exit # "None" \/ (overflows /\ overflow_checks) THEN "exit"
                    ELSE IF r.flow = "break" THEN "run"
                    ELSE "while"
           /\ instruction_pointer' =
                  IF r.exit # "None" THEN instruction_pointer
                  ELSE IF overflows /\ overflow_checks THEN r.ip
                  ELSE IF advances THEN usize_wrapping_inc(r.ip)
                  ELSE r.ip
           /\ instruction_count' =
                  IF advances THEN instruction_count + 1 ELSE instruction_count
    /\ UNCHANGED <<program, mic, state, overflow_checks>>

\* run, after execute_program returned: the ProcessingUnitState
Snapshot ==
    /\ pc = "run"
    /\ state' = [registers |-> pu.registers, stack |-> stack_slice(pu)]
    /\ pc' = "return"
    /\ UNCHANGED <<pu, program, mic, instruction_count, instruction_pointer,
                   fault, overflow_checks>>

Next == LoopExit \/ BudgetExceeded \/ EnterBody \/ Dispatch \/ Snapshot

---------------------------------------------------------------------------
(* The inputs of run: the two capacities, the program, the budget *)

\* register indices and memory addresses that occur in programs; the unit's
\* capacities range over 1..MaxRegs and 1..MaxMem, so each index but 0 is
\* out of bounds for some unit
RegIdx == 0..(MaxRegs - 1)

Addrs == 0..(MaxMem - 1)

Values == {I32Min, -1, 0, 2, I32Max}

Instr(op, r1, r2, r3, a, imm) ==
    [opcode |-> op, reg1 |-> r1, reg2 |-> r2, reg3 |-> r3, addr |-> a,
     immediate |-> imm]

LI(r, v) == Instr("LoadImmediate", r, 0, 0, 0, v)

\* every sequence over S of length 1..n
RECURSIVE SeqsUpTo(_, _)
SeqsUpTo(S, n) ==
    IF n = 0 THEN {}
    ELSE LET shorter == SeqsUpTo(S, n - 1)
         IN  {<<x>> : x \in S} \cup shorter
             \cup {Append(q, x) : q \in shorter, x \in S}

\* two registers loaded, then one three-register operation on them
ArithPrograms ==
    {<<LI(r1, a), LI(r2, b), Instr(op, r1, r2, r3, 0, 0)>> :
        op \in {"Add", "Sub", "Mul", "Div", "Mod", "And", "Or", "Xor", "Shl",
                "Shr", "Cmp", "Test"},
        r1 \in RegIdx, r2 \in RegIdx, r3 \in RegIdx, a \in Values, b \in Values}

\* one register loaded, then a one- or two-register operation on it
UnaryPrograms ==
    {<<LI(r1, a), Instr(op, r1, r2, 0, 0, 0)>> :
        op \in {"Neg", "Abs", "Not", "Inc", "Dec"},
        r1 \in RegIdx, r2 \in RegIdx, a \in Values}
    \cup {<<LI(r2, a), Instr("Mov", r1, r2, 0, 0, 0)>> :
             r1 \in RegIdx, r2 \in RegIdx, a \in Values}

\* loads, pushes and pops in every order, up to one more than the largest
\* stack can hold
StackPrograms ==
    SeqsUpTo({LI(0, 2)} \cup {Instr(op, r, 0, 0, 0, 0) :
                                 op \in {"Push", "Pop"}, r \in 0..1},
             MaxMem + 1)

\* a push, then a store and a load anywhere in memory, then a pop
MemoryPrograms ==
    {<<Instr("Push", 0, 0, 0, 0, 0), LI(r, w), Instr("Store", r, 0, 0, a, 0),
       Instr("Load", r2, 0, 0, a2, 0), Instr("Pop", r2, 0, 0, 0, 0)>> :
        r \in RegIdx, r2 \in RegIdx, w \in {-1, 2}, a \in Addrs, a2 \in Addrs}

\* register 0 loaded, two pushes, then two pops
LifoPrograms ==
    {<<LI(0, a), Instr("Push", r1, 0, 0, 0, 0), Instr("Push", r2, 0, 0, 0, 0),
       Instr("Pop", x, 0, 0, 0, 0), Instr("Pop", y, 0, 0, 0, 0)>> :
        a \in {-1, 2}, r1 \in RegIdx, r2 \in RegIdx, x \in RegIdx, y \in RegIdx}

JumpOpcodes == {"Jmp", "Jz", "Jnz", "Je", "Jne", "B", "Bz", "Bnz"}

\* the targets of a jump in a program of four instructions: each index, the
\* length, and the largest usize
Targets == 0..4 \cup {UsizeMax}

\* a register loaded, a jump or branch to any index of the program or past
\* its end, and two instructions it may skip; a jump, a Nop or a Halt alone
FlowPrograms ==
    {<<LI(0, a), Instr(op, r1, r2, 0, t, 0), Instr(after, 0, 0, 0, 0, 0),
       Instr("Inc", 0, 0, 0, 0, 0)>> :
        a \in {0, 2}, r1 \in RegIdx, r2 \in RegIdx, t \in Targets,
        op \in JumpOpcodes, after \in {"Nop", "Halt"}}
    \cup {<<Instr(op, 0, 0, 0, t, 0)>> : t \in 0..1, op \in JumpOpcodes}
    \cup {<<Instr(op, 0, 0, 0, 0, 0)>> : op \in {"Nop", "Halt"}}

\* The inputs with programs `progs`: every register count and build, the
\* memory sizes `mems` and the budgets `budgets`
Runs(progs, mems, budgets) ==
    [num_registers : 1..MaxRegs, memory_size : mems, program : progs,
     mic : budgets, overflow_checks : BOOLEAN]

\* Programs that use no memory run with the largest memory, programs that
\* cannot loop with the largest budget (main's own is 1000).
Inputs ==
    Runs(ArithPrograms \cup UnaryPrograms, {MaxMem}, {MaxBudget})
    \cup Runs(StackPrograms \cup MemoryPrograms \cup LifoPrograms, 1..MaxMem,
            {MaxBudget})
    \cup Runs(FlowPrograms, {MaxMem}, 1..MaxBudget)

\* main: initialize(total_registers, total_memory), then run(&mut pu, &program, mic)
Init ==
    \E in \in Inputs :
        /\ pu = initialize(in.num_registers, in.memory_size)
        /\ program = in.program
        /\ mic = in.mic
        /\ instruction_count = 0
        /\ instruction_pointer = 0
        /\ pc = "while"
        /\ fault = "None"
        /\ state = "NoState"
        /\ overflow_checks = in.overflow_checks

Spec == Init /\ [][Next]_vars

\* The jumps and branches on register 0, which holds 0 when they are reached
LoopPrograms ==
    {p \in FlowPrograms :
        \A i \in 1..Len(p) : p[i].reg1 = 0 /\ p[i].reg2 = 0 /\ p[i].immediate = 0}

LoopInit ==
    \E in \in Runs(LoopPrograms, {MaxMem}, 1..MaxBudget) :
        /\ pu = initialize(in.num_registers, in.memory_size)
        /\ program = in.program
        /\ mic = in.mic
        /\ instruction_count = 0
        /\ instruction_pointer = 0
        /\ pc = "while"
        /\ fault = "None"
        /\ state = "NoState"
        /\ overflow_checks = in.overflow_checks

\* One thread runs the loop and nothing suspends it: a step that can be
\* taken is taken.
FairSpec == LoopInit /\ [][Next]_vars /\ WF_vars(Next)

---------------------------------------------------------------------------
(* The engine's states, and the instruction about to be dispatched *)

Running == pc \in {"while", "match"}

Halted == pc \in {"run", "return"}

Faulted == fault \in {"OutOfBounds", "DivisionByZero", "StackOverflow",
                      "StackUnderflow", "BudgetExceeded"}

instr == program[instruction_pointer + 1]

Valid(reg) == usize_lt(reg, len(pu.registers))

\* the instruction about to be dispatched is a jump or branch that is taken
Taken ==
    /\ pc = "match"
    /\ \/ instr.opcode \in {"Jmp", "B"}
       \/ instr.opcode \in {"Jz", "Bz"} /\ Valid(instr.reg1)
          /\ pu.registers[instr.reg1] = 0
       \/ instr.opcode \in {"Jnz", "Bnz"} /\ Valid(instr.reg1)
          /\ pu.registers[instr.reg1] # 0
       \/ instr.opcode = "Je" /\ Valid(instr.reg1) /\ Valid(instr.reg2)
          /\ pu.registers[instr.reg1] = pu.registers[instr.reg2]
       \/ instr.opcode = "Jne" /\ Valid(instr.reg1) /\ Valid(instr.reg2)
          /\ pu.registers[instr.reg1] # pu.registers[instr.reg2]

---------------------------------------------------------------------------
(* Claims *)

\* C1: every run eventually leaves Running (it ends Halted or Faulted);
\* no program keeps the engine Running forever.
C1_EventuallyLeavesRunning == <>(~Running)

\* C2: every dispatched instruction whose jump or branch is taken adds
\* exactly one to the executed-instruction count (so that JMP 0 at address 0
\* exhausts a budget of N after N steps).
C2_TakenJumpCounts ==
    [][Taken => instruction_count' = instruction_count + 1]_vars

\* C3: a taken JE or JNE leaves the instruction pointer at addr: the next
\* instruction fetched is program[addr], not program[addr + 1].
C3_TakenJeJneGoesToAddr ==
    [][(Taken /\ instr.opcode \in {"Je", "Jne"})
          => (instruction_pointer' = instr.addr /\ pc' = "while")]_vars

\* C4: JZ and BZ at pointer p with target A and a valid register go to A when
\* the register holds 0 and to p + 1 when it does not; JNZ and BNZ the same
\* with the condition inverted; the unit (registers, memory, stack pointer)
\* is left as it was.
C4_ConditionalJumps ==
    [][(pc = "match" /\ instr.opcode \in {"Jz", "Bz", "Jnz", "Bnz"}
            /\ Valid(instr.reg1))
          => /\ instruction_pointer' =
                    IF (pu.registers[instr.reg1] = 0)
                           = (instr.opcode \in {"Jz", "Bz"})
                    THEN instr.addr
                    ELSE instruction_pointer + 1
             /\ pc' = "while"
             /\ fault' = "None"
             /\ pu' = pu]_vars

\* C4's case: a JZ or BZ at index 1 was taken to index 3 (the count is still
\* that of the load before it)
C4_Witness ==
    /\ pc = "while"
    /\ Len(program) = 4
    /\ program[2].opcode \in {"Jz", "Bz"}
    /\ program[2].addr = 3
    /\ instruction_pointer = 3
    /\ instruction_count = 1

\* C5: the stack pointer is always within 0..memory_size - 1, and a PUSH or
\* POP that would take it out of that range faults (StackOverflow,
\* StackUnderflow) and does not move it.
C5_StackPointerInRange ==
    /\ [](pu.stack_pointer >= 0 /\ pu.stack_pointer <= len(pu.memory) - 1)
    /\ [][(pc = "match" /\ Valid(instr.reg1)
             /\ \/ instr.opcode = "Push" /\ pu.stack_pointer = 0
                \/ instr.opcode = "Pop"
                   /\ pu.stack_pointer = len(pu.memory) - 1)
            => /\ fault' = (IF instr.opcode = "Push" THEN "StackOverflow"
                                                     ELSE "StackUnderflow")
               /\ pu'.stack_pointer = pu.stack_pointer]_vars

\* C5's case: a PUSH found the stack pointer at 0 after pushes had moved it
C5_Witness ==
    /\ fault = "StackOverflow"
    /\ pu.stack_pointer = 0
    /\ len(pu.memory) > 1

\* the program is memory_size PUSHes, each of a valid register
AllPushes ==
    /\ Len(program) = len(pu.memory)
    /\ \A i \in 1..Len(program) :
           program[i].opcode = "Push" /\ Valid(program[i].reg1)

\* C6: of memory_size consecutive PUSHes (budget at least memory_size) the
\* first memory_size - 1 succeed and the last faults with StackOverflow, the
\* stack pointer being 0: the run never returns, and it ends only there.
C6_PushesUntilOverflow ==
    (AllPushes /\ mic >= len(pu.memory))
        => /\ ~Halted
           /\ pu.stack_pointer = len(pu.memory) - 1 - instruction_count
           /\ fault \in {"None", "StackOverflow"}
           /\ fault = "StackOverflow"
                 => /\ instruction_count = len(pu.memory) - 1
                    /\ instruction_pointer = len(pu.memory) - 1
                    /\ pu.stack_pointer = 0

\* C6's case: three PUSHes on a memory of three cells, the third faulted
C6_Witness ==
    /\ AllPushes
    /\ len(pu.memory) = MaxMem
    /\ fault = "StackOverflow"
    /\ instruction_count = MaxMem - 1

\* C7: from a reachable state with stack_pointer > 0, PUSH(r) and then
\* POP(r) on a valid register r both succeed and leave register r and the
\* stack pointer with the values they had before the PUSH.
C7_PushPopRoundTrip ==
    \A r \in RegIdx :
        (Valid(r) /\ pu.stack_pointer > 0)
            => LET pushed == push(pu, r)
                   popped == pop(pushed.pu, r)
               IN  /\ pushed.exit = "None"
                   /\ popped.exit = "None"
                   /\ popped.pu.registers[r] = pu.registers[r]
                   /\ popped.pu.stack_pointer = pu.stack_pointer

\* C7's case: the run has just executed PUSH(r) and POP(r) on a register
\* that holds a nonzero value
C7_Witness ==
    /\ pc = "while"
    /\ fault = "None"
    /\ instruction_pointer >= 2
    /\ instruction_pointer <= Len(program)
    /\ instruction_count = instruction_pointer
    /\ program[instruction_pointer - 1].opcode = "Push"
    /\ program[instruction_pointer].opcode = "Pop"
    /\ program[instruction_pointer].reg1 = program[instruction_pointer - 1].reg1
    /\ pu.registers[program[instruction_pointer].reg1] # 0

\* C8: DIV or MOD with valid register indices and a divisor register holding
\* 0 faults with DivisionByZero and leaves every register, all memory and
\* the stack pointer as they were.
C8_DivisionByZero ==
    [][(pc = "match" /\ instr.opcode \in {"Div", "Mod"}
            /\ Valid(instr.reg1) /\ Valid(instr.reg2) /\ Valid(instr.reg3)
            /\ pu.registers[instr.reg2] = 0)
          => (fault' = "DivisionByZero" /\ pc' = "exit" /\ pu' = pu)]_vars

\* C8's case: a division by zero after both operands were loaded, the
\* dividend not zero
C8_Witness ==
    /\ fault = "DivisionByZero"
    /\ instruction_count = 2
    /\ pu.registers[program[3].reg1] # 0

\* C9: an instruction that faults with OutOfBounds, StackOverflow or
\* StackUnderflow leaves registers, memory and stack pointer as they were
\* before it, and these faults have the causes named: a register index >=
\* the register count or a LOAD/STORE address >= memory_size, a PUSH at
\* stack pointer 0, a POP at stack pointer memory_size - 1.
C9_BoundsFaultsWriteNothing ==
    [][(fault = "None"
            /\ fault' \in {"OutOfBounds", "StackOverflow", "StackUnderflow"})
          => /\ pu' = pu
             /\ pc = "match"
             /\ fault' = "StackOverflow"
                   => (instr.opcode = "Push" /\ pu.stack_pointer = 0)
             /\ fault' = "StackUnderflow"
                   => (instr.opcode = "Pop"
                       /\ pu.stack_pointer = len(pu.memory) - 1)
             /\ fault' = "OutOfBounds"
                   => \/ ~Valid(instr.reg1) \/ ~Valid(instr.reg2)
                      \/ ~Valid(instr.reg3)
                      \/ instr.opcode \in {"Load", "Store"}
                         /\ instr.addr >= len(pu.memory)]_vars

\* C9's case: a PUSH of a nonzero register faulted at stack pointer 0, where
\* memory[0] still holds what it held
C9_Witness ==
    /\ fault = "StackOverflow"
    /\ pu.registers[program[instruction_pointer + 1].reg1] # 0
    /\ pu.memory[0] = 0

\* C10: Faulted is terminal: after a fault or an exceeded budget no further
\* step is taken, so registers, memory, stack pointer, instruction pointer
\* and executed-count never change again.
C10_FaultedIsTerminal ==
    [][Faulted => (/\ pu' = pu
                   /\ instruction_pointer' = instruction_pointer
                   /\ instruction_count' = instruction_count
                   /\ pc' = pc
                   /\ fault' = fault)]_vars

\* C10's case: the budget was exceeded in the middle of a program
C10_Witness ==
    /\ fault = "BudgetExceeded"
    /\ pc = "exit"
    /\ instruction_pointer > 0

\* the opcodes that can move the instruction pointer, and the programs without
\* them: instruction i is executed i-th
StraightLine == \A i \in 1..Len(program) : program[i].opcode \notin JumpOpcodes

NoHalt == \A i \in 1..Len(program) : program[i].opcode # "Halt"

\* C11: the budget test comes before the end-of-program test: whenever the
\* executed-instruction count is >= the budget at the head of a step, the
\* engine goes to Faulted, also when the instruction pointer is >= the program
\* length; a straight-line program of exactly N non-HALT instructions run
\* with budget N ends Faulted, not Halted.
C11_BudgetBeforeEnd ==
    [][(pc = "while" /\ instruction_count >= mic)
          => (fault' = "BudgetExceeded" /\ pc' = "exit")]_vars

\* C11 as the code has it: the end-of-program test comes first. At the head
\* of a step, a pointer >= the program length ends the run Halted whatever
\* the count; the budget faults only when the pointer is inside the program;
\* a straight-line program of N non-HALT instructions with budget N is never
\* stopped by the budget.
C11_EndBeforeBudget ==
    /\ [][pc = "while"
            => IF ~usize_lt(instruction_pointer, Len(program))
               THEN pc' = "run" /\ fault' = "None"
               ELSE IF instruction_count >= mic
               THEN pc' = "exit" /\ fault' = "BudgetExceeded"
               ELSE pc' = "match" /\ fault' = "None"]_vars
    /\ []((StraightLine /\ NoHalt /\ Len(program) = mic)
            => fault # "BudgetExceeded")

\* C11's case: five instructions, none a jump or a Halt, ran with budget five
\* and the run ended Halted with the budget used up
C11_Witness ==
    /\ StraightLine /\ NoHalt
    /\ Len(program) = mic
    /\ mic > 1
    /\ instruction_count = mic
    /\ Halted
    /\ fault = "None"

\* C12: dispatching HALT takes the engine to Halted without changing the
\* registers, the memory, the stack pointer, the instruction pointer or the
\* executed-instruction count; nothing after it is executed; with HALT as the
\* first instruction the final snapshot has every register 0 and an empty
\* stack.
C12_HaltStops ==
    /\ [][(pc = "match" /\ instr.opcode = "Halt")
            => /\ pc' = "run"
               /\ fault' = "None"
               /\ pu' = pu
               /\ instruction_pointer' = instruction_pointer
               /\ instruction_count' = instruction_count]_vars
    /\ [][Halted
            => /\ Halted'
               /\ fault' = fault
               /\ pu' = pu
               /\ instruction_pointer' = instruction_pointer
               /\ instruction_count' = instruction_count]_vars
    /\ []((pc = "return" /\ program[1].opcode = "Halt")
            => /\ state.registers = [i \in DOMAIN pu.registers |-> 0]
               /\ state.stack = <<>>)

\* C12's case: a HALT in the middle of a program was dispatched after a
\* register was loaded; the run returned with the pointer still on the HALT
\* and the instructions after it not executed
C12_Witness ==
    /\ pc = "return"
    /\ usize_lt(instruction_pointer, Len(program))
    /\ instr.opcode = "Halt"
    /\ instruction_pointer + 1 < Len(program)
    /\ instruction_count > 0
    /\ pu.registers[0] # 0
    /\ state.registers = pu.registers

\* The run is LOAD_IMMEDIATE a into r1, LOAD_IMMEDIATE b into r2, then ADD,
\* SUB or MUL r1 r2 r3 with the three indices valid, and it has ended
LoadedArithmeticDone ==
    /\ Len(program) = 3
    /\ program[1].opcode = "LoadImmediate"
    /\ program[2].opcode = "LoadImmediate"
    /\ program[3].opcode \in {"Add", "Sub", "Mul"}
    /\ program[3].reg1 = program[1].reg1
    /\ program[3].reg2 = program[2].reg1
    /\ Valid(program[3].reg1) /\ Valid(program[3].reg2) /\ Valid(program[3].reg3)
    /\ ~Running

\* x is the sum, difference or product of a and b
IsResult(op, a, b, x) ==
    CASE op = "Add" -> ~AddOverflows(a, b) /\ x = a + b
      [] op = "Sub" -> ~SubOverflows(a, b) /\ x = a - b
      [] op = "Mul" -> ~MulOverflows(a, b) /\ x = a * b

\* x is the sum, difference or product of a and b modulo 2^32
IsWrappedResult(op, a, b, x) ==
    CASE op = "Add" -> x = WrappingAdd(a, b)
      [] op = "Sub" -> x = WrappingSub(a, b)
      [] op = "Mul" -> x = WrappingMul(a, b)

InI32(op, a, b) ==
    CASE op = "Add" -> ~AddOverflows(a, b)
      [] op = "Sub" -> ~SubOverflows(a, b)
      [] op = "Mul" -> ~MulOverflows(a, b)

\* C13: for all valid r1, r2, r3 (coinciding indices included) and all signed
\* 32-bit a, b: after LOAD_IMMEDIATE a into r1 and LOAD_IMMEDIATE b into r2,
\* ADD r1 r2 r3 leaves r3 = a + b, SUB leaves r3 = a - b, MUL leaves
\* r3 = a * b.
C13_ArithmeticOfLoaded ==
    LoadedArithmeticDone
        => /\ fault = "None"
           /\ IsResult(program[3].opcode, program[1].immediate,
                       program[2].immediate, pu.registers[program[3].reg3])

\* C13 as the code has it: the operands are what the registers hold when the
\* operation runs, so with r1 = r2 both are b; a result within the signed
\* 32-bit range is left in r3; one outside it panics where the build checks
\* overflow, the registers as loaded, and is left modulo 2^32 where it does
\* not.
C13_ArithmeticOfRegisters ==
    LoadedArithmeticDone
        => LET op == program[3].opcode
               r1 == program[3].reg1
               r2 == program[3].reg2
               b == program[2].immediate
               a == IF r1 = r2 THEN b ELSE program[1].immediate
               x == pu.registers[program[3].reg3]
           IN  IF InI32(op, a, b)
               THEN fault = "None" /\ IsResult(op, a, b, x)
               ELSE IF overflow_checks
               THEN /\ fault = "Panic"
                    /\ pu.registers[r1] = a
                    /\ pu.registers[r2] = b
               ELSE fault = "None" /\ IsWrappedResult(op, a, b, x)

\* C13's case: -1 and 2 were loaded into two different registers and MUL
\* left their product
C13_Witness ==
    /\ LoadedArithmeticDone
    /\ program[3].opcode = "Mul"
    /\ program[3].reg1 # program[3].reg2
    /\ program[1].immediate = -1
    /\ program[2].immediate = 2
    /\ pu.registers[program[3].reg3] = -2
    /\ pc = "return"

\* C14: on Halted the snapshot holds the whole register bank in index order
\* and exactly the memory cells stack_pointer + 1 .. memory_size - 1 in
\* increasing address order: the most recently pushed live value comes first
\* and the stack snapshot has memory_size - 1 - stack_pointer elements.
C14_SnapshotOrder ==
    pc = "return"
        => /\ state.registers = pu.registers
           /\ DOMAIN state.registers = 0..(len(pu.registers) - 1)
           /\ Len(state.stack) = len(pu.memory) - 1 - pu.stack_pointer
           /\ \A i \in 1..Len(state.stack) :
                  state.stack[i] = pu.memory[pu.stack_pointer + i]
           /\ (StraightLine /\ NoHalt /\ program[Len(program)].opcode = "Push")
                  => state.stack[1] = pu.registers[program[Len(program)].reg1]

\* C14's case: 0 was pushed, then 2, and the snapshot lists 2 before 0
C14_Witness ==
    /\ pc = "return"
    /\ program[Len(program)].opcode = "Push"
    /\ state.stack = <<2, 0>>
    /\ pu.stack_pointer = len(pu.memory) - 3

\* C15: the register bank has exactly num_registers entries and the memory
\* exactly memory_size entries in every reachable state: both are what
\* initialize made them, and no instruction changes either length.
C15_LengthsFixed ==
    /\ \E n \in 1..MaxRegs, m \in 1..MaxMem :
           /\ pu = initialize(n, m)
           /\ len(pu.registers) = n
           /\ len(pu.memory) = m
    /\ [][/\ DOMAIN pu'.registers = DOMAIN pu.registers
          /\ DOMAIN pu'.memory = DOMAIN pu.memory]_vars

\* C15's case: a run of five instructions that wrote registers and memory,
\* pushed and popped, on the largest unit
C15_Witness ==
    /\ pc = "return"
    /\ instruction_count = 5
    /\ len(pu.registers) = MaxRegs
    /\ len(pu.memory) = MaxMem
    /\ \E i \in DOMAIN pu.memory : pu.memory[i] # 0
    /\ \E i \in DOMAIN pu.registers : pu.registers[i] # 0
    /\ DOMAIN pu.memory = 0..(MaxMem - 1)

\* C16: DIV with valid register indices and a nonzero divisor never faults
\* and leaves r3 equal to the quotient truncated toward zero, for every signed
\* 32-bit r1 and nonzero r2, r1 = -2^31 with r2 = -1 included; a zero divisor
\* is the only way DIV can fail.
C16_DivNeverFaults ==
    [][(/\ pc = "match"
        /\ instr.opcode = "Div"
        /\ Valid(instr.reg1) /\ Valid(instr.reg2) /\ Valid(instr.reg3)
        /\ pu.registers[instr.reg2] # 0)
          => /\ fault' = "None"
             /\ pu'.registers[instr.reg3] =
                    TruncDiv(pu.registers[instr.reg1], pu.registers[instr.reg2])]_vars

\* In a program without jumps the instructions before the pointer are the
\* ones that were executed: how many of them have opcode op
Executed(op) ==
    Cardinality({i \in 1..instruction_pointer : program[i].opcode = op})

\* C17: the number of live stack cells, memory_size - 1 - stack_pointer, is
\* the number of successful PUSHes minus the number of successful POPs
\* executed so far; no other opcode changes the stack pointer.
C17_LiveCellsCount ==
    /\ [](StraightLine
            => len(pu.memory) - 1 - pu.stack_pointer
                   = Executed("Push") - Executed("Pop"))
    /\ [][pu'.stack_pointer =
              IF pc = "match" /\ fault' = "None" /\ instr.opcode = "Push"
              THEN pu.stack_pointer - 1
              ELSE IF pc = "match" /\ fault' = "None" /\ instr.opcode = "Pop"
              THEN pu.stack_pointer + 1
              ELSE pu.stack_pointer]_vars

\* C17's case: two PUSHes and a POP were executed and one cell is live
C17_Witness ==
    /\ StraightLine
    /\ fault = "None"
    /\ Executed("Push") = 2
    /\ Executed("Pop") = 1
    /\ len(pu.memory) - 1 - pu.stack_pointer = 1

\* The run was PUSH R0; LOAD_IMMEDIATE w into r; STORE r to an address;
\* LOAD from an address; POP; and it returned
StoreUnderPopDone ==
    /\ Len(program) = 5
    /\ program[1].opcode = "Push"
    /\ program[2].opcode = "LoadImmediate"
    /\ program[3].opcode = "Store"
    /\ program[3].reg1 = program[2].reg1
    /\ program[4].opcode = "Load"
    /\ program[5].opcode = "Pop"
    /\ pc = "return"

\* The run was LOAD_IMMEDIATE into register 0, two PUSHes (of values v1, then
\* v2: what their registers held), two POPs (into x, then y), and it returned
PushPushPopPopDone ==
    /\ Len(program) = 5
    /\ program[1].opcode = "LoadImmediate" /\ program[1].reg1 = 0
    /\ program[2].opcode = "Push"
    /\ program[3].opcode = "Push"
    /\ program[4].opcode = "Pop"
    /\ program[5].opcode = "Pop"
    /\ pc = "return"

\* C18: POP returns what memory[stack_pointer + 1] holds when it runs. After
\* PUSH of v, a STORE of w to address stack_pointer + 1 makes the POP yield w,
\* not v; with no STORE into the live region successive POPs return the
\* pushed values in reverse order of pushing.
C18_PopReadsTopCell ==
    /\ StoreUnderPopDone
           => pu.registers[program[5].reg1] =
                  IF program[3].addr = len(pu.memory) - 1
                  THEN program[2].immediate
                  ELSE 0
    /\ PushPushPopPopDone
           => LET v1 == IF program[2].reg1 = 0 THEN program[1].immediate ELSE 0
                  v2 == IF program[3].reg1 = 0 THEN program[1].immediate ELSE 0
                  x == program[4].reg1
                  y == program[5].reg1
              IN  /\ pu.registers[y] = v1
                  /\ x # y => pu.registers[x] = v2
                  /\ pu.stack_pointer = len(pu.memory) - 1

\* C18's case: 0 was pushed, w # 0 was stored over the cell it went to, and
\* the POP into another register, which held 0, brought back w
C18_Witness ==
    /\ StoreUnderPopDone
    /\ program[3].addr = len(pu.memory) - 1
    /\ program[4].addr # program[3].addr
    /\ program[5].reg1 # program[3].reg1
    /\ program[2].immediate # 0
    /\ pu.registers[program[5].reg1] = program[2].immediate
    /\ pu.stack_pointer = len(pu.memory) - 1

\* C19: PUSH never writes memory[0]: memory[0] changes only through a STORE
\* with addr 0, and address 0 is never part of the live stack region; with
\* memory_size = 1 every PUSH faults with StackOverflow and every POP faults
\* with StackUnderflow.
C19_CellZero ==
    /\ [][pu'.memory[0] # pu.memory[0]
            => (pc = "match" /\ instr.opcode = "Store" /\ instr.addr = 0)]_vars
    /\ [](pu.stack_pointer + 1 > 0)
    /\ [][(pc = "match" /\ len(pu.memory) = 1 /\ instr.opcode = "Push")
            => fault' = "StackOverflow"]_vars
    /\ [][(pc = "match" /\ len(pu.memory) = 1 /\ instr.opcode = "Pop")
            => fault' = "StackUnderflow"]_vars

\* C19 as the code has it: the register index is tested before the stack, so
\* with memory_size = 1 a PUSH or POP of a valid register faults with
\* StackOverflow or StackUnderflow and one of an invalid register with
\* OutOfBounds; the rest as stated.
C19_CellZeroValidRegister ==
    /\ [][pu'.memory[0] # pu.memory[0]
            => (pc = "match" /\ instr.opcode = "Store" /\ instr.addr = 0)]_vars
    /\ [](pu.stack_pointer + 1 > 0)
    /\ [][(pc = "match" /\ len(pu.memory) = 1 /\ instr.opcode = "Push")
            => fault' = (IF Valid(instr.reg1) THEN "StackOverflow"
                         ELSE "OutOfBounds")]_vars
    /\ [][(pc = "match" /\ len(pu.memory) = 1 /\ instr.opcode = "Pop")
            => fault' = (IF Valid(instr.reg1) THEN "StackUnderflow"
                         ELSE "OutOfBounds")]_vars

\* C19's case: on a memory of one cell a PUSH of a register holding a nonzero
\* value faulted with StackOverflow and cell 0 still holds 0
C19_Witness ==
    /\ len(pu.memory) = 1
    /\ fault = "StackOverflow"
    /\ program[instruction_pointer + 1].opcode = "Push"
    /\ pu.registers[program[instruction_pointer + 1].reg1] = 2
    /\ pu.memory[0] = 0
    /\ pu.stack_pointer = 0

\* C20: a taken jump or branch whose target addr is >= the program length is
\* not a fault: the unit is left as it was and the engine ends Halted at the
\* next step, the pointer being past the end at the head of the loop; no
\* instruction is ever fetched at an index >= the program length.
C20_JumpPastEndHalts ==
    /\ [][(Taken /\ ~usize_lt(instr.addr, Len(program)))
            => /\ fault' = "None"
               /\ pu' = pu
               /\ pc' = "while"
               /\ ~usize_lt(instruction_pointer', Len(program))]_vars
    /\ [](pc = "match" => usize_lt(instruction_pointer, Len(program)))

=============================================================================
